---- MODULE Spec2Model ----
(***************************************************************************)
(* State-machine model of programs/anchor-test-contract/src/lib.rs: the    *)
(* user-account ledger with its four instructions initialize_user,         *)
(* update_user, transfer_tokens and deactivate_user, the account           *)
(* validation contexts declared for them, and the transfer event.          *)
(*                                                                         *)
(* One transaction carries one instruction.  An instruction first has its  *)
(* accounts validated (the #[derive(Accounts)] contexts), then the handler *)
(* runs on deserialized copies of the accounts, and the copies are written *)
(* back (in the order the context declares them) only when the handler     *)
(* returns Ok.  The outcome of the instruction (result code and emitted    *)
(* events) stays visible until the client confirms it.                     *)
(***************************************************************************)
EXTENDS Integers, Sequences, FiniteSets, TLC

(***************************************************************************)
(* Bounds of the model.                                                    *)
(***************************************************************************)
\* Largest value of the balance type.  The program uses u64; the model keeps
\* the comparison against the maximum and scales the maximum down.
U64Max == 2

(***************************************************************************)
(* Program constants.                                                      *)
(***************************************************************************)
MaxNameLen == 32
U8Max == 255

(***************************************************************************)
(* Values.                                                                 *)
(***************************************************************************)
\* Public keys of the identities that sign transactions.
Keys == {"k1", "k2"}
\* Pubkey::default(), the content of zeroed account data.
DefaultKey == "default"

\* Characters of names: one ASCII character and one two-byte character.
Chars == {"a", "U+00E9"}
\* The number of bytes of a character in UTF-8.
Utf8Width(c) == IF c = "a" THEN 1 ELSE 2
Rep(c, n) == [i \in 1..n |-> c]

\* The number of characters of a name (not what String::len() returns).
CharCount(name) == Len(name)
\* String::len(): the length of the UTF-8 encoding in bytes.
RECURSIVE NameLen(_)
NameLen(name) ==
    IF name = <<>> THEN 0 ELSE Utf8Width(Head(name)) + NameLen(Tail(name))

\* Names the clients send: within the limit (1 byte; 16 characters in 32
\* bytes) and beyond it (33 bytes; 17 characters in 34 bytes).
ShortNames == {Rep("a", 1), Rep("U+00E9", 16)}
LongNames == {Rep("a", MaxNameLen + 1), Rep("U+00E9", 17)}
Names == ShortNames \cup LongNames
Ages == {0, 1, U8Max}
Amounts == 0..U64Max
\* Values of the clock (Clock::get()?.unix_timestamp) the environment reports.
Times == {1, 2}

\* Option<String> and Option<u8>
NoName == [some |-> FALSE, val |-> <<>>]
NoAge == [some |-> FALSE, val |-> 0]
Some(v) == [some |-> TRUE, val |-> v]
OptNames == {NoName} \cup {Some(n) : n \in Names}
OptAges == {NoAge} \cup {Some(a) : a \in Ages}

\* Pubkey::find_program_address(&[tag, key]): deterministic and collision
\* free, so the address is the pair of its seeds.
Derive(tag, key) == <<tag, key>>
Addresses == {Derive("user", k) : k \in Keys}

\* An address that holds no UserAccount (no data, owned by the system program).
Uninitialized ==
    [init |-> FALSE, authority |-> DefaultKey, name |-> <<>>, age |-> 0,
     balance |-> 0, is_active |-> FALSE, created_at |-> 0]

\* Result codes: the program's CustomError, and the framework's errors of
\* account validation.
Ok == "Ok"
CustomError ==
    {"NameTooLong", "InvalidAge", "InvalidAmount", "InsufficientFunds",
     "AccountInactive", "AccountAlreadyInactive", "MathOverflow"}
\* has_one violated: the spec's OwnershipMismatch
OwnershipMismatch == "ConstraintHasOne"
\* seeds violated: the spec's AddressMismatch
AddressMismatch == "ConstraintSeeds"
AccountNotInitialized == "AccountNotInitialized"
AccountAlreadyInUse == "AccountAlreadyInUse"

VARIABLES
    store,   \* address -> account data
    ix,      \* the instruction of the transaction last processed
    res,     \* its result
    events,  \* the events it emitted
    pre      \* the store before it was processed

vars == <<store, ix, res, events, pre>>

NoIx ==
    [op |-> "none", signer |-> DefaultKey, user |-> Derive("user", DefaultKey),
     receiver |-> Derive("user", DefaultKey), name |-> NoName, age |-> NoAge,
     amount |-> 0, now |-> 0]

Idle == ix.op = "none"

Init ==
    /\ store = [a \in Addresses |-> Uninitialized]
    /\ ix = NoIx
    /\ res = "none"
    /\ events = <<>>
    /\ pre = [a \in Addresses |-> Uninitialized]

(***************************************************************************)
(* Account validation: the #[derive(Accounts)] contexts.  Each operator    *)
(* gives the set of errors the validation can end with; the empty set      *)
(* means the handler runs.  An Account<UserAccount> field is deserialized  *)
(* first and fails on an address without a record.  When several declared  *)
(* constraints of a field are violated, which of them is reported depends  *)
(* on the order in which the framework's generated code evaluates them,    *)
(* which this source does not fix: every violated one is a possible        *)
(* outcome.                                                                *)
(***************************************************************************)
\* A validation in which the has_one and seeds constraints are missing.
NoConstraintErrors(acc, addr, signer) == {}

\* has_one = authority, seeds = [b"user", authority.key().as_ref()]
ConstraintErrors(acc, addr, signer) ==
    (IF acc.authority # signer THEN {OwnershipMismatch} ELSE {})
    \cup (IF addr # Derive("user", signer) THEN {AddressMismatch} ELSE {})

\* init without the failure on an address that is already in use.
InitIfNeededErrors(st, user, signer) ==
    IF user # Derive("user", signer) THEN {AddressMismatch} ELSE {}

\* init without the seeds of the address.
InitAnywhereErrors(st, user, signer) ==
    IF st[user].init THEN {AccountAlreadyInUse} ELSE {}

\* init, seeds = [b"user", authority.key().as_ref()]
InitializeUserErrors(st, user, signer) ==
    (IF user # Derive("user", signer) THEN {AddressMismatch} ELSE {})
    \cup (IF st[user].init THEN {AccountAlreadyInUse} ELSE {})

UpdateUserErrors(st, user, signer) ==
    IF ~st[user].init THEN {AccountNotInitialized}
    ELSE ConstraintErrors(st[user], user, signer)

TransferTokensErrors(st, sender, receiver, signer) ==
    IF ~st[sender].init \/ ~st[receiver].init THEN {AccountNotInitialized}
    ELSE LET s == ConstraintErrors(st[sender], sender, signer)
         IN  IF s # {} THEN s
             ELSE IF receiver # Derive("user", st[receiver].authority)
                  THEN {AddressMismatch} ELSE {}

DeactivateUserErrors(st, user, signer) ==
    IF ~st[user].init THEN {AccountNotInitialized}
    ELSE ConstraintErrors(st[user], user, signer)

(***************************************************************************)
(* The handlers, as functions of the deserialized accounts.  Each gives    *)
(* the result and the accounts as the handler leaves them in memory, which *)
(* on an error includes the assignments made before the failing check.     *)
(***************************************************************************)
\* A created record that starts inactive and without its creation time.
NewAccountInactive(signer, name, age, now) ==
    [init |-> TRUE, authority |-> signer, name |-> name, age |-> age,
     balance |-> 0, is_active |-> FALSE, created_at |-> 0]

\* A created record that starts with a balance.
NewAccountFunded(signer, name, age, now) ==
    [init |-> TRUE, authority |-> signer, name |-> name, age |-> age,
     balance |-> 1, is_active |-> TRUE, created_at |-> now]

\* The assignments of initialize_user.
NewAccount(signer, name, age, now) ==
    [init |-> TRUE, authority |-> signer, name |-> name, age |-> age,
     balance |-> 0, is_active |-> TRUE, created_at |-> now]

\* A name check that counts characters.
NameFitsChars(name) == CharCount(name) <= MaxNameLen
NameFits(name) == NameLen(name) <= MaxNameLen

\* An age check that accepts 0.
AgeValidOrZero(age) == age >= 0
AgeValid(age) == age > 0

initialize_user(user, signer, name, age, now) ==
    IF ~NameFits(name) THEN [res |-> "NameTooLong", user |-> user]
    ELSE IF ~AgeValid(age) THEN [res |-> "InvalidAge", user |-> user]
    ELSE [res |-> Ok, user |-> NewAccount(signer, name, age, now)]

\* An update that marks the account active again.
update_reactivating(user, new_name, new_age) ==
    [res |-> Ok, user |-> [user EXCEPT !.is_active = TRUE]]

\* An update that writes the default of a field that is absent.
update_defaulting(user, new_name, new_age) ==
    [res |-> Ok,
     user |-> [user EXCEPT !.name = new_name.val, !.age = new_age.val]]

update_user(user, new_name, new_age) ==
    LET named ==
            IF new_name.some
            THEN IF ~NameFits(new_name.val)
                 THEN [res |-> "NameTooLong", user |-> user]
                 ELSE [res |-> Ok, user |-> [user EXCEPT !.name = new_name.val]]
            ELSE [res |-> Ok, user |-> user]
    IN  IF named.res # Ok THEN named
        ELSE IF new_age.some
             THEN IF ~AgeValid(new_age.val)
                  THEN [res |-> "InvalidAge", user |-> named.user]
                  ELSE [res |-> Ok,
                        user |-> [named.user EXCEPT !.age = new_age.val]]
             ELSE named

\* u64::checked_sub and u64::checked_add: no value when the result is out
\* of the range of the type.
NoU64 == [some |-> FALSE, val |-> 0]
\* A subtraction that forgets the debit.
forgotten_sub(a, b) == Some(a)
checked_sub(a, b) == IF a - b < 0 THEN NoU64 ELSE Some(a - b)
\* u64::wrapping_add
wrapping_add(a, b) == Some((a + b) % (U64Max + 1))
checked_add(a, b) == IF a + b > U64Max THEN NoU64 ELSE Some(a + b)

\* An amount check that accepts 0.
AmountNonNegative(amount) == amount >= 0
AmountPositive(amount) == amount > 0
\* A funds check that is missing.
AnyFunds(sender, amount) == TRUE
SufficientFunds(sender, amount) == sender.balance >= amount
\* An activity check that is missing.
AlwaysActive(account) == TRUE
AccountActive(account) == account.is_active

\* An event with sender and receiver exchanged.
SwappedEvent(sender, receiver, amount, now) ==
    [from |-> receiver.authority, to |-> sender.authority, amount |-> amount,
     timestamp |-> now]

TokenTransferEvent(sender, receiver, amount, now) ==
    [from |-> sender.authority, to |-> receiver.authority, amount |-> amount,
     timestamp |-> now]

transfer_tokens(sender, receiver, amount, now) ==
    LET fail(e, s, r) ==
            [res |-> e, sender |-> s, receiver |-> r, events |-> <<>>]
        debit == checked_sub(sender.balance, amount)
        debited == [sender EXCEPT !.balance = debit.val]
        credit == checked_add(receiver.balance, amount)
        credited == [receiver EXCEPT !.balance = credit.val]
    IN  IF ~AmountPositive(amount) THEN fail("InvalidAmount", sender, receiver)
        ELSE IF ~SufficientFunds(sender, amount)
        THEN fail("InsufficientFunds", sender, receiver)
        ELSE IF ~AccountActive(sender)
        THEN fail("AccountInactive", sender, receiver)
        ELSE IF ~AccountActive(receiver)
        THEN fail("AccountInactive", sender, receiver)
        ELSE IF ~debit.some THEN fail("MathOverflow", sender, receiver)
        ELSE IF ~credit.some THEN fail("MathOverflow", debited, receiver)
        ELSE [res |-> Ok, sender |-> debited, receiver |-> credited,
              events |-> <<TokenTransferEvent(debited, credited, amount, now)>>]

\* A deactivation without the check that the account is active.
deactivate_unchecked(user) ==
    [res |-> Ok, user |-> [user EXCEPT !.is_active = FALSE]]

\* A deactivation that also clears the creation time.
deactivate_stamping(user) ==
    [res |-> Ok, user |-> [user EXCEPT !.is_active = FALSE, !.created_at = 0]]

deactivate_user(user) ==
    IF ~user.is_active THEN [res |-> "AccountAlreadyInactive", user |-> user]
    ELSE [res |-> Ok, user |-> [user EXCEPT !.is_active = FALSE]]

(***************************************************************************)
(* The end of an instruction: the accounts are serialized back into the    *)
(* store when the handler returned Ok; on an error the transaction is      *)
(* aborted and the store keeps the content it had.                         *)
(***************************************************************************)
\* An exit that writes the accounts back whatever the result is.
ExitAlways(result, before, after) == after
Exit(result, before, after) == IF result = Ok THEN after ELSE before

\* The outcome of the instruction i becomes visible.
Outcome(i, result, after, emitted) ==
    /\ ix' = i
    /\ res' = result
    /\ store' = Exit(result, store, after)
    /\ events' = IF result = Ok THEN emitted ELSE <<>>
    /\ pre' = store

Request(op, signer, user, receiver, name, age, amount, now) ==
    [op |-> op, signer |-> signer, user |-> user, receiver |-> receiver,
     name |-> name, age |-> age, amount |-> amount, now |-> now]

(***************************************************************************)
(* The instructions.                                                       *)
(***************************************************************************)
InitializeUser(signer, user, name, age, now) ==
    /\ Idle
    /\ LET i == Request("initialize_user", signer, user, user, Some(name),
                        Some(age), 0, now)
           errs == InitializeUserErrors(store, user, signer)
           out == initialize_user(store[user], signer, name, age, now)
       IN  IF errs # {}
           THEN \E e \in errs : Outcome(i, e, store, <<>>)
           ELSE Outcome(i, out.res, [store EXCEPT ![user] = out.user], <<>>)

UpdateUser(signer, user, new_name, new_age) ==
    /\ Idle
    /\ LET i == Request("update_user", signer, user, user, new_name, new_age, 0, 0)
           errs == UpdateUserErrors(store, user, signer)
           out == update_user(store[user], new_name, new_age)
       IN  IF errs # {}
           THEN \E e \in errs : Outcome(i, e, store, <<>>)
           ELSE Outcome(i, out.res, [store EXCEPT ![user] = out.user], <<>>)

TransferTokens(signer, sender, receiver, amount, now) ==
    /\ Idle
    /\ LET i == Request("transfer_tokens", signer, sender, receiver, NoName, NoAge,
                        amount, now)
           errs == TransferTokensErrors(store, sender, receiver, signer)
           out == transfer_tokens(store[sender], store[receiver], amount, now)
           \* the accounts are written back in the order of the context's fields
           written == [[store EXCEPT ![sender] = out.sender]
                           EXCEPT ![receiver] = out.receiver]
       IN  IF errs # {}
           THEN \E e \in errs : Outcome(i, e, store, <<>>)
           ELSE Outcome(i, out.res, written, out.events)

DeactivateUser(signer, user) ==
    /\ Idle
    /\ LET i == Request("deactivate_user", signer, user, user, NoName, NoAge, 0, 0)
           errs == DeactivateUserErrors(store, user, signer)
           out == deactivate_user(store[user])
       IN  IF errs # {}
           THEN \E e \in errs : Outcome(i, e, store, <<>>)
           ELSE Outcome(i, out.res, [store EXCEPT ![user] = out.user], <<>>)

\* The client has seen the outcome of its transaction; the next one can go.
Confirm ==
    /\ ~Idle
    /\ ix' = NoIx
    /\ res' = "none"
    /\ events' = <<>>
    /\ pre' = store
    /\ UNCHANGED store

\* The environment credits a record by a mechanism outside the program.
Credit(user, amount) ==
    /\ Idle
    /\ store[user].init
    /\ store[user].balance + amount <= U64Max
    /\ ix' = Request("credit", DefaultKey, user, user, NoName, NoAge, amount, 0)
    /\ res' = Ok
    /\ store' = [store EXCEPT ![user].balance = @ + amount]
    /\ events' = <<>>
    /\ pre' = store

Next ==
    \/ \E signer \in Keys, user \in Addresses, name \in Names, age \in Ages,
          now \in Times : InitializeUser(signer, user, name, age, now)
    \/ \E signer \in Keys, user \in Addresses, new_name \in OptNames,
          new_age \in OptAges : UpdateUser(signer, user, new_name, new_age)
    \/ \E signer \in Keys, sender \in Addresses, receiver \in Addresses,
          amount \in Amounts, now \in Times :
            TransferTokens(signer, sender, receiver, amount, now)
    \/ \E signer \in Keys, user \in Addresses : DeactivateUser(signer, user)
    \/ Confirm

NextCredit ==
    \/ Next
    \/ \E user \in Addresses, amount \in 1..U64Max : Credit(user, amount)

\* The program alone.
Spec == Init /\ [][Next]_vars
\* The program in an environment that credits records.
SpecCredit == Init /\ [][NextCredit]_vars

TypeOK ==
    /\ \A a \in Addresses : store[a].balance \in 0..U64Max
    /\ res \in {"none", Ok} \cup CustomError
               \cup {OwnershipMismatch, AddressMismatch, AccountNotInitialized,
                     AccountAlreadyInUse}

(***************************************************************************)
(* Vocabulary of the properties.  They are stated on the outcome of the    *)
(* instruction last processed: ix is the request, pre the store it found,  *)
(* store the store it left, res its result, events what it emitted.        *)
(***************************************************************************)
IsTransfer == ix.op = "transfer_tokens"
IsInitialize == ix.op = "initialize_user"
IsUpdate == ix.op = "update_user"
IsDeactivate == ix.op = "deactivate_user"

\* The records the request names, as the instruction found them.
PreUser == pre[ix.user]
PreReceiver == pre[ix.receiver]

\* The request is signed by the recorded authority of the record it names
\* as user (the sender of a transfer).
SignedByAuthority == PreUser.init /\ ix.signer = PreUser.authority
\* The request names an existing record whose authority did not sign.
SignedByOther == PreUser.init /\ ix.signer # PreUser.authority

\* A transfer between two existing records, requested by the sender's
\* authority.
AuthorizedTransfer == IsTransfer /\ SignedByAuthority /\ PreReceiver.init

\* C1 as stated: every transfer of 0 < amount <= sender.balance between two
\* active records, signed by the sender's authority, succeeds, debits the
\* sender and credits the receiver by amount, and conserves their sum.
C1_TransferAlwaysSucceeds ==
    (/\ AuthorizedTransfer
     /\ ix.user # ix.receiver
     /\ PreUser.is_active /\ PreReceiver.is_active
     /\ 0 < ix.amount /\ ix.amount <= PreUser.balance)
    => /\ res = Ok
       /\ store[ix.user].balance = PreUser.balance - ix.amount
       /\ store[ix.receiver].balance = PreReceiver.balance + ix.amount
       /\ store[ix.user].balance + store[ix.receiver].balance
            = PreUser.balance + PreReceiver.balance

\* C1 (amended): a transfer of 0 < amount <= sender.balance between two
\* active records, signed by the sender's authority alone, succeeds whenever
\* receiver.balance + amount fits the balance type; it debits the sender and
\* credits the receiver by amount and conserves their sum.
C1_TransferMovesAmount ==
    (/\ AuthorizedTransfer
     /\ ix.user # ix.receiver
     /\ PreUser.is_active /\ PreReceiver.is_active
     /\ 0 < ix.amount /\ ix.amount <= PreUser.balance
     /\ PreReceiver.balance + ix.amount <= U64Max)
    => /\ res = Ok
       /\ store[ix.user].balance = PreUser.balance - ix.amount
       /\ store[ix.receiver].balance = PreReceiver.balance + ix.amount
       /\ store[ix.user].balance + store[ix.receiver].balance
            = PreUser.balance + PreReceiver.balance

\* A transfer that succeeded without the receiver's authority signing and
\* left the sender with funds.
C1_Witness ==
    /\ AuthorizedTransfer
    /\ ix.user # ix.receiver
    /\ ix.signer # PreReceiver.authority
    /\ res = Ok
    /\ ix.amount > 0
    /\ store[ix.user].balance > 0
    /\ store[ix.receiver].balance = PreReceiver.balance + ix.amount

\* An update, a transfer or a deactivation that names existing records and is
\* signed by another identity than the authority of the guarded record.
GuardedByOther ==
    /\ ix.op \in {"update_user", "transfer_tokens", "deactivate_user"}
    /\ SignedByOther
    /\ IsTransfer => PreReceiver.init

\* C2 as stated: a guarded operation signed by another identity than the
\* record's authority fails with OwnershipMismatch and changes no record.
C2_FailsWithOwnershipMismatch ==
    GuardedByOther => (res = OwnershipMismatch /\ store = pre)

\* C2 (amended): a guarded operation signed by another identity than the
\* record's authority fails in the account guard, with OwnershipMismatch or
\* with AddressMismatch, whatever its parameters and the state of the record,
\* and changes no record.
C2_RejectedByGuard ==
    GuardedByOther
    => (res \in {OwnershipMismatch, AddressMismatch} /\ store = pre
        /\ events = <<>>)

\* A transfer with valid parameters from a funded active record, signed by
\* the receiver's authority instead of the sender's, was rejected.
C2_Witness ==
    /\ IsTransfer /\ SignedByOther /\ PreReceiver.init
    /\ ix.signer = PreReceiver.authority
    /\ PreUser.is_active /\ PreReceiver.is_active
    /\ 0 < ix.amount /\ ix.amount <= PreUser.balance
    /\ res \in {OwnershipMismatch, AddressMismatch}

\* C3: an authorized transfer of more than the sender's balance fails with
\* InsufficientFunds, changes no balance and emits no event.
C3_InsufficientFunds ==
    (AuthorizedTransfer /\ ix.amount > PreUser.balance)
    => (res = "InsufficientFunds" /\ store = pre /\ events = <<>>)

\* A transfer of more than a non-zero balance was refused.
C3_Witness ==
    /\ AuthorizedTransfer
    /\ PreUser.balance > 0
    /\ ix.amount > PreUser.balance
    /\ res = "InsufficientFunds"

\* The error of the first failing precondition of a transfer, in the order
\* amount, funds, sender active, receiver active ("none": all four hold).
FirstFailing ==
    IF ~(ix.amount > 0) THEN "InvalidAmount"
    ELSE IF ~(PreUser.balance >= ix.amount) THEN "InsufficientFunds"
    ELSE IF ~PreUser.is_active THEN "AccountInactive"
    ELSE IF ~PreReceiver.is_active THEN "AccountInactive"
    ELSE "none"

\* C4: an authorized transfer that violates preconditions returns the error
\* of the first failing check in the order amount > 0, sender.balance >=
\* amount, sender.is_active, receiver.is_active.
C4_FirstFailingCheckWins ==
    (AuthorizedTransfer /\ FirstFailing # "none") => res = FirstFailing

\* An inactive sender with a balance below the amount got InsufficientFunds.
C4_Witness ==
    /\ AuthorizedTransfer
    /\ ~PreUser.is_active
    /\ 0 < ix.amount /\ PreUser.balance < ix.amount
    /\ res = "InsufficientFunds"

\* C5: an authorized transfer whose credit would exceed the maximum of the
\* balance type fails with MathOverflow and changes no balance, and every
\* balance of every reachable state is within the range of the type.
C5_OverflowChangesNothing ==
    /\ (AuthorizedTransfer /\ FirstFailing = "none"
        /\ PreReceiver.balance + ix.amount > U64Max)
       => (res = "MathOverflow" /\ store = pre /\ events = <<>>)
    /\ \A a \in Addresses : store[a].balance \in 0..U64Max
    /\ (IsTransfer /\ res = Ok)
       => store[ix.receiver].balance >= PreReceiver.balance

\* A transfer between two records failed on the credit after the debit had
\* been computed.
C5_Witness ==
    /\ AuthorizedTransfer
    /\ ix.user # ix.receiver
    /\ res = "MathOverflow"
    /\ store[ix.user].balance = PreUser.balance
    /\ PreUser.balance >= ix.amount

\* The record initialize_user creates from the request.
Created ==
    [init |-> TRUE, authority |-> ix.signer, name |-> ix.name.val,
     age |-> ix.age.val, balance |-> 0, is_active |-> TRUE,
     created_at |-> ix.now]

\* initialize_user on the address derived from the signer, which holds no
\* record.
InitializeFresh ==
    IsInitialize /\ ix.user = Derive("user", ix.signer) /\ ~PreUser.init

C7_NoReinitialize ==
    (IsInitialize /\ PreUser.init) => (res # Ok /\ store = pre)

\* The authority of a deactivated, funded record asked to initialize it
\* again with valid parameters and was refused.
C7_Witness ==
    /\ IsInitialize /\ SignedByAuthority
    /\ ~PreUser.is_active /\ PreUser.balance > 0
    /\ NameLen(ix.name.val) <= MaxNameLen /\ ix.age.val > 0
    /\ ix.name.val # PreUser.name
    /\ res # Ok

\* update_user that passed the account guard.
AuthorizedUpdate == IsUpdate /\ SignedByAuthority

\* C8 as stated: names longer than 32 bytes fail initialize and update with
\* NameTooLong and an age of 0 fails them with InvalidAge, whatever the other
\* parameter is, and nothing is created or changed.
C8_EachInvalidFieldHasItsError ==
    /\ ((InitializeFresh \/ AuthorizedUpdate) /\ ix.name.some
        /\ NameLen(ix.name.val) > MaxNameLen)
       => (res = "NameTooLong" /\ store = pre)
    /\ ((InitializeFresh \/ AuthorizedUpdate) /\ ix.age.some
        /\ ix.age.val = 0)
       => (res = "InvalidAge" /\ store = pre)

\* C8 (amended): names longer than 32 bytes fail initialize and update with
\* NameTooLong; an age of 0 fails them with InvalidAge when the name is
\* absent or within the limit; in each case nothing is created or changed.
C8_InvalidFieldsRejected ==
    /\ ((InitializeFresh \/ AuthorizedUpdate) /\ ix.name.some
        /\ NameLen(ix.name.val) > MaxNameLen)
       => (res = "NameTooLong" /\ store = pre)
    /\ ((InitializeFresh \/ AuthorizedUpdate) /\ ix.age.some
        /\ ix.age.val = 0
        /\ (ix.name.some => NameLen(ix.name.val) <= MaxNameLen))
       => (res = "InvalidAge" /\ store = pre)

\* An update with a name of 17 characters in 34 bytes was refused.
C8_Witness ==
    /\ AuthorizedUpdate
    /\ ix.name.some
    /\ CharCount(ix.name.val) <= MaxNameLen
    /\ NameLen(ix.name.val) > MaxNameLen
    /\ res = "NameTooLong"

\* C9: an update with a valid new name and the age 0 fails with InvalidAge
\* and the record, its name included, is as it was.
C9_FailedUpdateWritesNothing ==
    (AuthorizedUpdate /\ ix.name.some /\ NameLen(ix.name.val) <= MaxNameLen
     /\ ix.age.some /\ ix.age.val = 0)
    => /\ res = "InvalidAge"
       /\ store[ix.user].name = PreUser.name
       /\ store = pre

\* An update carried a valid name other than the record's together with the
\* age 0.
C9_Witness ==
    /\ AuthorizedUpdate
    /\ ix.name.some /\ NameLen(ix.name.val) <= MaxNameLen
    /\ ix.name.val # PreUser.name
    /\ ix.age.some /\ ix.age.val = 0
    /\ res = "InvalidAge"

\* C10: deactivate by the authority succeeds on an active record, sets
\* is_active to false and changes nothing else; on an inactive record it
\* fails with AccountAlreadyInactive and changes nothing.
C10_DeactivateOnce ==
    /\ (IsDeactivate /\ SignedByAuthority /\ PreUser.is_active)
       => /\ res = Ok
          /\ store = [pre EXCEPT ![ix.user].is_active = FALSE]
    /\ (IsDeactivate /\ SignedByAuthority /\ ~PreUser.is_active)
       => (res = "AccountAlreadyInactive" /\ store = pre)

\* The second deactivation of a funded record was refused.
C10_Witness ==
    /\ IsDeactivate /\ SignedByAuthority
    /\ ~PreUser.is_active
    /\ PreUser.balance > 0
    /\ res = "AccountAlreadyInactive"

\* C11: account status is one-way.  In every step an existing record stays
\* in existence and an inactive record stays inactive; a record comes into
\* existence only by initialize_user, and then active, and an active record
\* becomes inactive only by deactivate_user.
C11_StatusOneWay ==
    [][\A a \in Addresses :
          /\ store[a].init => store'[a].init
          /\ (store[a].init /\ ~store[a].is_active) => ~store'[a].is_active
          /\ (~store[a].init /\ store'[a].init)
             => (ix'.op = "initialize_user" /\ store'[a].is_active)
          /\ (store[a].is_active /\ ~store'[a].is_active)
             => ix'.op = "deactivate_user"]_vars

\* The authority of an inactive record had an instruction accepted on it,
\* and the record is still inactive.
C11_Witness ==
    /\ IsUpdate /\ SignedByAuthority
    /\ ~PreUser.is_active
    /\ res = Ok
    /\ store[ix.user].init /\ ~store[ix.user].is_active

\* C12: no instruction changes any field of a record that is inactive.
C12_InactiveRecordIsFrozen ==
    \A a \in Addresses : (pre[a].init /\ ~pre[a].is_active) => store[a] = pre[a]

\* C13: an authorized transfer of a positive amount the sender can afford
\* fails with AccountInactive and changes nothing when the sender or the
\* receiver is inactive; no transfer changes the balance of an inactive
\* record.
C13_InactiveBalanceUntouched ==
    /\ (AuthorizedTransfer /\ ix.amount > 0 /\ PreUser.balance >= ix.amount
        /\ (~PreUser.is_active \/ ~PreReceiver.is_active))
       => (res = "AccountInactive" /\ store = pre /\ events = <<>>)
    /\ IsTransfer
       => \A a \in Addresses :
            (pre[a].init /\ ~pre[a].is_active)
            => store[a].balance = pre[a].balance

\* A funded active sender could not pay an inactive receiver.
C13_Witness ==
    /\ AuthorizedTransfer
    /\ ix.user # ix.receiver
    /\ PreUser.is_active /\ ~PreReceiver.is_active
    /\ ix.amount > 0 /\ PreUser.balance >= ix.amount
    /\ PreReceiver.balance + ix.amount <= U64Max
    /\ res = "AccountInactive"

\* C14: in every reachable state every existing record has a name of at
\* most 32 bytes and an age greater than 0.
C14_NameAndAgeValid ==
    \A a \in Addresses :
        store[a].init
        => (NameLen(store[a].name) <= MaxNameLen /\ store[a].age > 0)

\* A record holds a name of exactly 32 bytes and the largest age, after an
\* update with a name beyond the limit or the age 0 was refused on it.
C14_Witness ==
    /\ AuthorizedUpdate
    /\ res \in {"NameTooLong", "InvalidAge"}
    /\ NameLen(store[ix.user].name) = MaxNameLen
    /\ store[ix.user].age = U8Max

\* C15: no instruction changes the authority or the created_at of an
\* existing record, whichever record the instruction is about.
C15_AuthorityAndCreationFixed ==
    \A a \in Addresses :
        pre[a].init
        => /\ store[a].authority = pre[a].authority
           /\ store[a].created_at = pre[a].created_at

\* A transfer was accepted at another time than the one at which its sender
\* and its receiver were created.
C15_Witness ==
    /\ AuthorizedTransfer /\ res = Ok
    /\ ix.user # ix.receiver
    /\ ix.now # PreUser.created_at /\ ix.now # PreReceiver.created_at
    /\ store[ix.user].created_at = PreUser.created_at
    /\ store[ix.receiver].authority = PreReceiver.authority

\* C16: every existing record is stored at the address derived from its own
\* authority, so no two records have the same authority, and an instruction
\* that names, for the record the signer is checked against, another address
\* than the one derived from the signer is rejected and changes nothing.
C16_AddressBinding ==
    /\ \A a \in Addresses :
          store[a].init => a = Derive("user", store[a].authority)
    /\ \A a, b \in Addresses :
          (store[a].init /\ store[b].init
           /\ store[a].authority = store[b].authority) => a = b
    /\ (ix.op \in {"initialize_user", "update_user", "transfer_tokens",
                   "deactivate_user"}
        /\ ix.user # Derive("user", ix.signer))
       => (res # Ok /\ store = pre /\ events = <<>>)
    /\ (IsTransfer /\ PreReceiver.init
        /\ ix.receiver # Derive("user", PreReceiver.authority))
       => (res # Ok /\ store = pre)

\* A signer with a record of its own named the active record of another
\* authority for deactivation and was rejected.
C16_Witness ==
    /\ IsDeactivate
    /\ PreUser.init /\ PreUser.is_active
    /\ pre[Derive("user", ix.signer)].init
    /\ ix.user # Derive("user", ix.signer)
    /\ res # Ok

\* C17: a successful update writes the supplied name and the supplied age and
\* nothing else: an absent field keeps its value, balance, is_active,
\* authority and created_at are unchanged, and so is every other record.
C17_UpdateFrame ==
    (IsUpdate /\ res = Ok)
    => store = [pre EXCEPT
                  ![ix.user].name = IF ix.name.some THEN ix.name.val ELSE @,
                  ![ix.user].age = IF ix.age.some THEN ix.age.val ELSE @]

\* An update that supplied only the age succeeded on a funded record.
C17_Witness ==
    /\ IsUpdate /\ res = Ok
    /\ ~ix.name.some /\ ix.age.some
    /\ ix.age.val # PreUser.age
    /\ PreUser.balance > 0
    /\ store[ix.user].name = PreUser.name

\* The event a successful transfer has to emit.
ExpectedEvent ==
    [from |-> PreUser.authority, to |-> PreReceiver.authority,
     amount |-> ix.amount, timestamp |-> ix.now]

\* C18: a successful transfer emits exactly one event, with the sender's
\* authority, the receiver's authority, the amount and the current time; a
\* failed transfer and every other instruction emit nothing.  The log, which
\* is the succession of what the instructions emit, grows by that one entry
\* on each successful transfer and by nothing otherwise.
C18_OneEventPerTransfer ==
    /\ (IsTransfer /\ res = Ok) => events = <<ExpectedEvent>>
    /\ ~(IsTransfer /\ res = Ok) => events = <<>>
    /\ Len(events) = IF IsTransfer /\ res = Ok THEN 1 ELSE 0

\* A transfer between two records emitted its event.
C18_Witness ==
    /\ IsTransfer /\ res = Ok
    /\ ix.user # ix.receiver
    /\ Len(events) = 1
    /\ events[1].from = ix.signer
    /\ events[1].to # ix.signer
    /\ events[1].amount = ix.amount

\* The sum of the balances of all records.
RECURSIVE SumBalances(_, _)
SumBalances(st, as) ==
    IF as = {} THEN 0
    ELSE LET a == CHOOSE x \in as : TRUE
         IN  st[a].balance + SumBalances(st, as \ {a})
TotalBalance(st) == SumBalances(st, Addresses)

\* C19: no instruction changes the sum of the balances of all records; in
\* particular a transfer whose sender and receiver are the same record
\* leaves the balance of that record as it was.
C19_ValueConserved ==
    (IsInitialize \/ IsUpdate \/ IsTransfer \/ IsDeactivate)
    => TotalBalance(store) = TotalBalance(pre)

\* C19, for transfers between two records only: those conserve the sum.
C19_TwoPartyTransfersConserve ==
    (IsTransfer /\ ix.user # ix.receiver)
    => TotalBalance(store) = TotalBalance(pre)

\* C20: with the four instructions alone every balance is 0, no transfer
\* succeeds and no event is emitted: a transfer is rejected by the account
\* validation, or fails with InvalidAmount when the amount is 0 and with
\* InsufficientFunds when it is greater.
C20_NoFundsWithoutCredit ==
    /\ \A a \in Addresses : store[a].balance = 0
    /\ events = <<>>
    /\ IsTransfer
       => \/ res \in {OwnershipMismatch, AddressMismatch, AccountNotInitialized}
          \/ ix.amount = 0 /\ res = "InvalidAmount"
          \/ ix.amount > 0 /\ res = "InsufficientFunds"

\* A transfer of a positive amount between two active records, signed by the
\* sender's authority, failed for lack of funds.
C20_Witness ==
    /\ AuthorizedTransfer
    /\ ix.user # ix.receiver
    /\ PreUser.is_active /\ PreReceiver.is_active
    /\ ix.amount > 0
    /\ res = "InsufficientFunds"

====
